---------------------------- MODULE Spec2Model ----------------------------
(***************************************************************************)
(* Model of zbot's IRC client core (src/bot.py): class Tcp (line framing   *)
(* over a socket, two greenlets _recv_loop and _send_loop) and class Irc   *)
(* (registration, _parsemsg, _event_loop, cmd/_send).                      *)
(*                                                                         *)
(* A Python byte string is a sequence of one-character strings, so         *)
(* 'PING' is <<"P","I","N","G">>.  The greenlets are scheduled             *)
(* cooperatively by gevent: each action below is the stretch of code a     *)
(* greenlet runs between two blocking calls (recv, send, connect, or a     *)
(* get on an empty queue).                                                 *)
(***************************************************************************)
EXTENDS Naturals, Sequences, FiniteSets

(***************************************************************************)
(* Bounds of the model.                                                    *)
(***************************************************************************)
\* most protocol lines the server sends in one run of the full system
MaxLines == 2
\* most protocol lines of a run fed lines the core has no rule for
MaxUnhandledLines == 2
\* most bytes of an arbitrary server byte stream
MaxStream == 5
\* most characters of an arbitrary inbound line
MaxLineLen == 5
\* most PING lines with a line break in them
MaxInjectLines == 2
\* how far beyond the slice limit the longest outbound request reaches
MaxOver == 1

(***************************************************************************)
(* Program constants.                                                      *)
(***************************************************************************)
\* self._socket.recv(4096)
RecvSize == 4096
\* self.oqueue.get().splitlines()[0][:512]
SliceLimit == 512

CR == "\r"
LF == "\n"
CRLF == <<CR, LF>>
\* the characters str.split() treats as white space
Whitespace == {" ", "\t", "\n", "\r", "\f"}
\* the line boundaries of str.splitlines()
LineBreaks == {"\n", "\r"}

S_NICK == <<"N", "I", "C", "K">>
S_USER == <<"U", "S", "E", "R">>
S_PONG == <<"P", "O", "N", "G">>
S_PING == <<"P", "I", "N", "G">>
S_JOIN == <<"J", "O", "I", "N">>
S_433 == <<"4", "3", "3">>
S_001 == <<"0", "0", "1">>

(***************************************************************************)
(* SETTINGS: the configuration the session is constructed with.            *)
(***************************************************************************)
SettingsNick == <<"z">>
SettingsRealname == <<"r">>
SettingsChannels == << <<"#", "a">>, <<"#", "b">> >>

(***************************************************************************)
(* String helpers (Python str operations).                                 *)
(***************************************************************************)
Min(a, b) == IF a <= b THEN a ELSE b

\* s[:n]
Take(s, n) == SubSeq(s, 1, Min(n, Len(s)))

\* s[n:]
Drop(s, n) == SubSeq(s, Min(n, Len(s)) + 1, Len(s))

IsPrefix(p, s) == Len(p) <= Len(s) /\ SubSeq(s, 1, Len(p)) = p

\* s.find(pat) + 1: the first position where pat occurs in s, 0 when none
Find(s, pat) ==
    LET hits == { i \in 1..Len(s) :
                    i + Len(pat) - 1 <= Len(s)
                    /\ SubSeq(s, i, i + Len(pat) - 1) = pat }
    IN IF hits = {} THEN 0 ELSE CHOOSE i \in hits : \A j \in hits : i <= j

\* s.split(pat, 1)
SplitOnce(s, pat) ==
    LET i == Find(s, pat)
    IN IF i = 0 THEN << s >>
       ELSE << SubSeq(s, 1, i - 1), SubSeq(s, i + Len(pat), Len(s)) >>

\* s.split(): the maximal runs of non-whitespace characters
RECURSIVE SplitWs(_)
SplitWs(s) ==
    IF s = << >> THEN << >>
    ELSE IF Head(s) \in Whitespace THEN SplitWs(Tail(s))
    ELSE LET ends == { i \in 1..Len(s) : s[i] \in Whitespace }
             e == IF ends = {} THEN Len(s) + 1
                  ELSE CHOOSE i \in ends : \A j \in ends : i <= j
         IN << SubSeq(s, 1, e - 1) >> \o SplitWs(SubSeq(s, e, Len(s)))

\* ''.join(parts)
RECURSIVE Join(_)
Join(parts) ==
    IF parts = << >> THEN << >> ELSE Head(parts) \o Join(Tail(parts))

\* s.splitlines(): split at "\n", "\r" and "\r\n"; no final empty piece
RECURSIVE SplitLines(_)
SplitLines(s) ==
    IF s = << >> THEN << >>
    ELSE LET brk == { i \in 1..Len(s) : s[i] \in LineBreaks }
         IN IF brk = {} THEN << s >>
            ELSE LET b == CHOOSE i \in brk : \A j \in brk : i <= j
                     w == IF s[b] = CR /\ b < Len(s) /\ s[b + 1] = LF
                          THEN 2 ELSE 1
                 IN << SubSeq(s, 1, b - 1) >>
                    \o SplitLines(SubSeq(s, b + w, Len(s)))


(***************************************************************************)
(* State.                                                                  *)
(***************************************************************************)
VARIABLES
    ibuffer,    \* Tcp._ibuffer
    obuffer,    \* Tcp._obuffer
    iqueue,     \* Tcp.iqueue: lines framed and not yet taken by the session
    oqueue,     \* Tcp.oqueue: requests sent and not yet taken by _send_loop
    sock,       \* Tcp._socket: "new", "connected" or "closed"
    connPc,     \* the greenlet running Tcp.connect
    recvPc,     \* the greenlet running Tcp._recv_loop
    sendPc,     \* the greenlet running Tcp._send_loop
    nick,       \* Irc.nick
    line,       \* Irc.line
    lines,      \* Irc.lines: the history queue
    channels,   \* Irc.channels
    ircPc,      \* the greenlet running Irc.__init__ / _event_loop
    net,        \* transport: bytes the server has sent or will send, unread
    peerEof,    \* transport: the peer has closed its side
    wire,       \* transport: every byte send() has accepted, in order
    received,   \* history: every byte recv() has returned, in order
    delivered,  \* history: every line put on iqueue, in order
    processed,  \* history: every line _event_loop has taken from iqueue
    requests,   \* history: every request put on oqueue, in order
    framed,     \* history: every framed line appended to _obuffer
    eofReads    \* history: recv() calls that returned no bytes: 0, 1, 2 for more

vars == << ibuffer, obuffer, iqueue, oqueue, sock, connPc, recvPc, sendPc,
           nick, line, lines, channels, ircPc, net, peerEof, wire, received, delivered,
           processed, requests, framed, eofReads >>

tcpIn == << ibuffer, iqueue, recvPc, net, peerEof, received, delivered, eofReads >>
tcpOut == << obuffer, sendPc, wire, framed >>
ircVars == << nick, line, lines, channels, ircPc, processed >>

(***************************************************************************)
(* Tcp: the pure parts of the two loops.                                   *)
(***************************************************************************)
\* DrainLines looking for a bare "\n" instead of "\r\n"
RECURSIVE DrainLinesAtLF(_)
DrainLinesAtLF(buf) ==
    IF Find(buf, << LF >>) = 0 THEN [lines |-> << >>, rest |-> buf]
    ELSE LET parts == SplitOnce(buf, << LF >>)
             more == DrainLinesAtLF(parts[2])
         IN [lines |-> << parts[1] >> \o more.lines, rest |-> more.rest]

\* _recv_loop, lines 51-53: while '\r\n' in ibuffer, split off one line and
\* put it on iqueue.  The result is the lines put and the buffer left.
RECURSIVE DrainLines(_)
DrainLines(buf) ==
    IF Find(buf, CRLF) = 0 THEN [lines |-> << >>, rest |-> buf]
    ELSE LET parts == SplitOnce(buf, CRLF)
             more == DrainLines(parts[2])
         IN [lines |-> << parts[1] >> \o more.lines, rest |-> more.rest]

\* _send_loop, line 57: oqueue.get().splitlines()[0] raises IndexError when
\* splitlines() returns the empty list.
FrameRaises(req) == SplitLines(req) = << >>

\* FrameLine without splitlines()[0]: the whole request is framed
FrameLineWholeRequest(req) == Take(req, SliceLimit) \o CRLF

\* _send_loop, lines 57-58: the bytes appended to _obuffer for one request
FrameLine(req) == Take(SplitLines(req)[1], SliceLimit) \o CRLF

(***************************************************************************)
(* Irc: message parsing and command building.                              *)
(***************************************************************************)
ParseError(e) == [err |-> e, prefix |-> << >>, command |-> << >>, args |-> << >>]

\* ParseRest without the trailing-argument case
ParseRestNoTrailing(prefix, s) ==
    IF SplitWs(s) = << >> THEN ParseError("IndexError")
    ELSE [err |-> "none", prefix |-> prefix,
          command |-> Head(SplitWs(s)), args |-> Tail(SplitWs(s))]

\* _parsemsg, lines 108-115, applied to the text left after the prefix
ParseRest(prefix, s) ==
    LET args == IF Find(s, << " ", ":" >>) # 0
                THEN LET parts == SplitOnce(s, << " ", ":" >>)
                     IN Append(SplitWs(parts[1]), parts[2])
                ELSE SplitWs(s)
    IN IF args = << >> THEN ParseError("IndexError")
       ELSE [err |-> "none", prefix |-> prefix,
             command |-> Head(args), args |-> Tail(args)]

\* _parsemsg: the parsed message, or the exception the call raises
Parsemsg(s) ==
    IF s = << >> THEN ParseError("IrcNullMessage")
    ELSE IF Head(s) = ":"
         THEN LET parts == SplitOnce(Tail(s), << " " >>)
              IN IF Len(parts) < 2 THEN ParseError("ValueError")
                 ELSE ParseRest(parts[1], parts[2])
         ELSE ParseRest(<< >>, s)

\* cmd without a prefix: command + ' ' + ''.join(args); args is a sequence
\* of strings (a single string argument is passed as a one-element sequence,
\* which ''.join leaves unchanged)
Cmd(command, args) == command \o << " " >> \o Join(args)

\* _set_nick
SetNick(n) == Cmd(S_NICK, << n >>)

\* __init__, line 75: self.realname
IrcRealname == << ":" >> \o SettingsRealname

\* _connect, line 92
UserCmd(n, realname) ==
    Cmd(S_USER, << n, << " ", "3", " " >>, << "*", " " >>, realname >>)

\* Registration with USER sent before NICK
RegistrationUserFirst(n, realname) == << UserCmd(n, realname), SetNick(n) >>

\* _connect, lines 91-92: the two registration requests, in sending order
Registration(n, realname) == << SetNick(n), UserCmd(n, realname) >>

\* JoinChans passing the whole list to one cmd call
JoinChansInOneCmd(chans) == << Cmd(S_JOIN, chans) >>

\* _join_chans: one JOIN per channel, in list order
JoinChans(chans) == [i \in 1..Len(chans) |-> Cmd(S_JOIN, << chans[i] >>)]

\* _event_loop, lines 130-136: the requests the three rules send for one
\* parsed message, given the nick before the message
Reactions(n, msg) ==
    (IF msg.command = S_433 THEN << SetNick(n \o << "_" >>) >> ELSE << >>)
    \o (IF msg.command = S_PING THEN << Cmd(S_PONG, msg.args) >> ELSE << >>)
    \o (IF msg.command = S_001 THEN JoinChans(channels) ELSE << >>)

\* NextNick adding the underscore whatever the command is
NextNickOnAnyLine(n, msg) == n \o << "_" >>

\* _event_loop, lines 130-131: the nick after one parsed message
NextNick(n, msg) == IF msg.command = S_433 THEN n \o << "_" >> ELSE n


\* Shrink taking every send to have accepted the whole buffer
ShrinkAllSent(buf, sent) == << >>

\* _send_loop, line 61: self._obuffer[sent:]
Shrink(buf, sent) == Drop(buf, sent)

(***************************************************************************)
(* Inputs of the environment.                                              *)
(***************************************************************************)
\* protocol lines the server may send (without the terminator): the
\* commands the core reacts to, and an empty line
ServerLines ==
    { S_PING \o << " ", ":", "a" >>,     \* PING :a
      S_433,
      S_001,
      << >> }                             \* an empty line

\* lines the core has no rule for: lines without a command token, a command
\* it does not handle, and a PING to follow them
UnhandledLines ==
    { << " " >>,                          \* only white space
      << ":", "p" >>,                     \* a prefix and no space after it
      << "X" >>,                          \* an unknown command
      S_PING \o << " ", "a", " ", "b" >> } \* PING a b

SeqsUpTo(S, n) == UNION { [1..k -> S] : k \in 0..n }

\* the characters an arbitrary inbound line is made of
LineChars == { ":", " ", "a", "\t" }

\* :nick!user@host PRIVMSG #chan :hello world
PrivmsgLine ==
    << ":", "n", "i", "c", "k", "!", "u", "s", "e", "r", "@", "h", "o",
       "s", "t", " ", "P", "R", "I", "V", "M", "S", "G", " ", "#", "c",
       "h", "a", "n", " ", ":", "h", "e", "l", "l", "o", " ", "w", "o",
       "r", "l", "d" >>

\* PING :server.example.com
PingServerLine ==
    << "P", "I", "N", "G", " ", ":", "s", "e", "r", "v", "e", "r", ".",
       "e", "x", "a", "m", "p", "l", "e", ".", "c", "o", "m" >>

\* the inbound lines the parser is fed: every short line, and two real ones
ParseLines == SeqsUpTo(LineChars, MaxLineLen) \cup { PrivmsgLine, PingServerLine }

\* PING lines whose trailing argument holds a lone LF or a lone CR
InjectLines ==
    { S_PING \o << " ", ":", "a", LF, "b" >>,
      S_PING \o << " ", ":", CR, "b" >> }

\* the bytes an arbitrary stream is made of
StreamBytes == { CR, LF, "a" }

\* the byte streams made of at most n lines of L, each terminated
StreamsOf(L, n) ==
    { Join([i \in 1..Len(ls) |-> ls[i] \o CRLF]) : ls \in SeqsUpTo(L, n) }

\* outbound requests around the slice limit, and short ones with line breaks
Fill(n) == [i \in 1..n |-> "x"]

OutRequests ==
    { Fill(n) : n \in (SliceLimit - 2)..(SliceLimit + MaxOver) }
    \cup { Fill(SliceLimit + 1) \o << LF, "y" >>,
           << >>,
           << "a" >>,
           << "a", LF, "b" >>,
           << "a", CR, LF, "b" >>,
           << "a", CR, "b", LF >>,
           << LF, "a" >> }

(***************************************************************************)
(* Initial state: Tcp.__init__ has run and Irc.__init__ is at line 82,     *)
(* about to call _connect.                                                 *)
(***************************************************************************)
InitProgram ==
    /\ ibuffer = << >>
    /\ obuffer = << >>
    /\ iqueue = << >>
    /\ oqueue = << >>
    /\ sock = "new"
    /\ connPc = "unspawned"
    /\ recvPc = "unspawned"
    /\ sendPc = "unspawned"
    /\ nick = SettingsNick
    /\ line = [prefix |-> << >>, command |-> << >>, args |-> << << >>, << >> >>]
    /\ lines = << >>
    /\ channels = SettingsChannels
    /\ ircPc = "init"
    /\ peerEof = FALSE
    /\ wire = << >>
    /\ received = << >>
    /\ delivered = << >>
    /\ processed = << >>
    /\ requests = << >>
    /\ framed = << >>
    /\ eofReads = 0

Init ==
    /\ InitProgram
    /\ net \in StreamsOf(ServerLines, MaxLines)

\* the same, fed lines the core has no rule for
InitUnhandled ==
    /\ InitProgram
    /\ net \in StreamsOf(UnhandledLines, MaxUnhandledLines)

\* the same, fed PING lines with a lone CR or LF in them
InitInject ==
    /\ InitProgram
    /\ net \in StreamsOf(InjectLines, MaxInjectLines)

\* the state once _connect has run and Tcp.connect is waiting in joinall
Connected ==
    /\ ibuffer = << >>
    /\ obuffer = << >>
    /\ iqueue = << >>
    /\ sock = "connected"
    /\ connPc = "joinall"
    /\ recvPc = "recv"
    /\ sendPc = "get"
    /\ nick = SettingsNick
    /\ line = [prefix |-> << >>, command |-> << >>, args |-> << << >>, << >> >>]
    /\ lines = << >>
    /\ channels = SettingsChannels
    /\ ircPc = "loop"
    /\ peerEof = FALSE
    /\ wire = << >>
    /\ received = << >>
    /\ delivered = << >>
    /\ processed = << >>
    /\ framed = << >>
    /\ eofReads = 0

\* connected, with an arbitrary byte stream coming from the server
InitRecv ==
    /\ Connected
    /\ oqueue = Registration(SettingsNick, IrcRealname)
    /\ requests = oqueue
    /\ net \in SeqsUpTo(StreamBytes, MaxStream)

\* connected, with one arbitrary line coming from the server
InitParse ==
    /\ Connected
    /\ oqueue = Registration(SettingsNick, IrcRealname)
    /\ requests = oqueue
    /\ \E l \in ParseLines : net = l \o CRLF

\* connected, with one more request sent after the registration
InitSend ==
    /\ Connected
    /\ \E r \in OutRequests :
         oqueue = Registration(SettingsNick, IrcRealname) \o << r >>
    /\ requests = oqueue
    /\ net = << >>

(***************************************************************************)
(* Irc.                                                                    *)
(***************************************************************************)
\* SendAll on a queue that hands out the newest request first
SendAllLifo(reqs) ==
    /\ oqueue' = reqs \o oqueue
    /\ requests' = requests \o reqs

\* _send: put the requests on oqueue (Queue.put on an unbounded queue)
SendAll(reqs) ==
    /\ oqueue' = oqueue \o reqs
    /\ requests' = requests \o reqs

\* __init__ line 82, _connect lines 88-92: spawn the greenlet that runs
\* Tcp.connect, send NICK and USER, then enter _event_loop.  Nothing here
\* blocks, so no other greenlet runs in between.
IrcConnect ==
    /\ ircPc = "init"
    /\ connPc' = "spawned"
    /\ SendAll(Registration(nick, IrcRealname))
    /\ ircPc' = "loop"
    /\ UNCHANGED << sock, recvPc, sendPc, nick, line, lines, channels, processed >>
    /\ UNCHANGED << ibuffer, iqueue, net, peerEof, received, delivered, eofReads >>
    /\ UNCHANGED tcpOut

\* _event_loop, lines 125-136: one iteration.  An exception raised by
\* _parsemsg is not caught: it leaves _event_loop and __init__.
EventLoop ==
    /\ ircPc = "loop"
    /\ iqueue # << >>
    /\ LET s == Head(iqueue)
           msg == Parsemsg(s)
       IN /\ iqueue' = Tail(iqueue)
          /\ processed' = Append(processed, s)
          /\ IF msg.err # "none"
             THEN /\ ircPc' = "raised"
                  /\ UNCHANGED << nick, line, lines, oqueue, requests >>
             ELSE /\ line' = [prefix |-> msg.prefix, command |-> msg.command,
                              args |-> msg.args]
                  /\ lines' = Append(lines, line')
                  /\ nick' = NextNick(nick, msg)
                  /\ SendAll(Reactions(nick, msg))
                  /\ ircPc' = "loop"
    /\ UNCHANGED << sock, connPc, recvPc, sendPc, channels >>
    /\ UNCHANGED << ibuffer, net, peerEof, received, delivered, eofReads >>
    /\ UNCHANGED tcpOut

\* _disconnect / Tcp.disconnect: close the socket
Disconnect ==
    /\ ircPc # "init"
    /\ sock # "closed"
    /\ sock' = "closed"
    /\ UNCHANGED << oqueue, requests, connPc >>
    /\ UNCHANGED << tcpIn, tcpOut, ircVars >>

(***************************************************************************)
(* Tcp.                                                                    *)
(***************************************************************************)
\* Connect running the read loop alone: the send loop is not spawned
ConnectSequential ==
    /\ connPc = "spawned"
    /\ sock = "new"
    /\ sock' = "connected"
    /\ connPc' = "joinall"
    /\ recvPc' = "recv"
    /\ UNCHANGED sendPc
    /\ UNCHANGED << ibuffer, iqueue, net, peerEof, received, delivered, eofReads >>
    /\ UNCHANGED << obuffer, wire, framed, oqueue, requests >>
    /\ UNCHANGED ircVars

\* connect, lines 37-40: the socket connects, both loops are spawned and
\* connect waits in joinall.  The greenlet first runs when __init__ blocks.
Connect ==
    /\ connPc = "spawned"
    /\ sock = "new"
    /\ sock' = "connected"
    /\ connPc' = "joinall"
    /\ recvPc' = "recv"
    /\ sendPc' = "get"
    /\ UNCHANGED << ibuffer, iqueue, net, peerEof, received, delivered, eofReads >>
    /\ UNCHANGED << obuffer, wire, framed, oqueue, requests >>
    /\ UNCHANGED ircVars

\* connect, line 37: socket.connect raises (refused, unreachable, closed
\* socket); no loop is spawned
ConnectFails ==
    /\ connPc = "spawned"
    /\ connPc' = "raised"
    /\ UNCHANGED << sock, oqueue, requests >>
    /\ UNCHANGED << tcpIn, tcpOut, ircVars >>

\* connect, lines 40-42: joinall returns once both loops have ended
ConnectReturns ==
    /\ connPc = "joinall"
    /\ recvPc = "raised"
    /\ sendPc = "raised"
    /\ connPc' = "returned"
    /\ UNCHANGED << sock, oqueue, requests >>
    /\ UNCHANGED << tcpIn, tcpOut, ircVars >>

\* _recv_loop, lines 49-53: recv returns n >= 1 bytes; they are appended to
\* _ibuffer and every complete line is put on iqueue
Recv ==
    /\ recvPc = "recv"
    /\ sock = "connected"
    /\ net # << >>
    /\ \E n \in 1..Min(Len(net), RecvSize) :
         LET data == Take(net, n)
             d == DrainLines(ibuffer \o data)
         IN /\ net' = Drop(net, n)
            /\ received' = received \o data
            /\ ibuffer' = d.rest
            /\ iqueue' = iqueue \o d.lines
            /\ delivered' = delivered \o d.lines
    /\ UNCHANGED << recvPc, peerEof, eofReads >>
    /\ UNCHANGED << sock, connPc, oqueue, requests >>
    /\ UNCHANGED << tcpOut, ircVars >>

\* _recv_loop, lines 49-51 at end of stream: recv returns '' and the loop
\* goes round again
RecvEof ==
    /\ recvPc = "recv"
    /\ sock = "connected"
    /\ net = << >>
    /\ peerEof
    /\ eofReads' = Min(eofReads + 1, 2)
    /\ LET d == DrainLines(ibuffer \o << >>)
       IN /\ ibuffer' = d.rest
          /\ iqueue' = iqueue \o d.lines
          /\ delivered' = delivered \o d.lines
    /\ UNCHANGED << recvPc, net, peerEof, received >>
    /\ UNCHANGED << sock, connPc, oqueue, requests >>
    /\ UNCHANGED << tcpOut, ircVars >>

\* _recv_loop, line 49: recv raises (connection reset, or the socket was
\* closed by disconnect); the exception ends the greenlet
RecvFails ==
    /\ recvPc = "recv"
    /\ recvPc' = "raised"
    /\ UNCHANGED << ibuffer, iqueue, net, peerEof, received, delivered, eofReads >>
    /\ UNCHANGED << sock, connPc, oqueue, requests >>
    /\ UNCHANGED << tcpOut, ircVars >>

\* _send_loop, lines 57-59: take the next request, frame it and append it to
\* _obuffer; splitlines()[0] raises IndexError on an empty request
SendTake ==
    /\ sendPc = "get"
    /\ oqueue # << >>
    /\ oqueue' = Tail(oqueue)
    /\ IF FrameRaises(Head(oqueue))
       THEN /\ sendPc' = "raised"
            /\ UNCHANGED << obuffer, framed >>
       ELSE /\ obuffer' = obuffer \o FrameLine(Head(oqueue))
            /\ framed' = Append(framed, FrameLine(Head(oqueue)))
            /\ sendPc' = "send"
    /\ UNCHANGED << wire, requests, sock, connPc >>
    /\ UNCHANGED << tcpIn, ircVars >>

\* _send_loop, lines 59-61: send accepts sent >= 1 of the buffered bytes and
\* the buffer is shrunk by that many; the inner loop ends when it is empty
SendWrite ==
    /\ sendPc = "send"
    /\ sock = "connected"
    /\ \E sent \in 1..Len(obuffer) :
         /\ wire' = wire \o Take(obuffer, sent)
         /\ obuffer' = Shrink(obuffer, sent)
         /\ sendPc' = IF obuffer' = << >> THEN "get" ELSE "send"
    /\ UNCHANGED << framed, oqueue, requests, sock, connPc >>
    /\ UNCHANGED << tcpIn, ircVars >>

\* _send_loop, line 60: send raises; the exception ends the greenlet
SendFails ==
    /\ sendPc = "send"
    /\ sendPc' = "raised"
    /\ UNCHANGED << obuffer, wire, framed, oqueue, requests, sock, connPc >>
    /\ UNCHANGED << tcpIn, ircVars >>

(***************************************************************************)
(* Transport.                                                              *)
(***************************************************************************)
\* the peer closes its side; the end of the stream follows the last byte sent
PeerCloses ==
    /\ sock = "connected"
    /\ net = << >>
    /\ ~peerEof
    /\ peerEof' = TRUE
    /\ UNCHANGED << ibuffer, iqueue, recvPc, net, received, delivered, eofReads >>
    /\ UNCHANGED << sock, connPc, oqueue, requests >>
    /\ UNCHANGED << tcpOut, ircVars >>

Next ==
    \/ IrcConnect
    \/ EventLoop
    \/ Disconnect
    \/ Connect
    \/ ConnectFails
    \/ ConnectReturns
    \/ Recv
    \/ RecvEof
    \/ RecvFails
    \/ SendTake
    \/ SendWrite
    \/ SendFails
    \/ PeerCloses

Spec == Init /\ [][Next]_vars

\* the full system fed lines the core has no rule for
SpecUnhandled == InitUnhandled /\ [][Next]_vars

\* the receive path alone, fed arbitrary bytes in arbitrary chunks
\* the whole program, answering PING lines with line breaks in them
SpecInject == InitInject /\ [][Next]_vars

NextRecv ==
    \/ Recv
    \/ RecvEof
    \/ RecvFails
    \/ PeerCloses

SpecRecv == InitRecv /\ [][NextRecv]_vars

\* the receive path and the event loop, fed one arbitrary line
NextParse ==
    \/ Recv
    \/ EventLoop

SpecParse == InitParse /\ [][NextParse]_vars

\* the send path alone
NextSend ==
    \/ SendTake
    \/ SendWrite
    \/ SendFails

SpecSend == InitSend /\ [][NextSend]_vars


(***************************************************************************)
(* Properties.                                                             *)
(***************************************************************************)
Last(s) == s[Len(s)]

Max(S) == CHOOSE i \in S : \A j \in S : j <= i

\* positions of the CR of every CR-LF pair of a byte stream
Terminators(s) == { i \in 1..Len(s) : i < Len(s) /\ s[i] = CR /\ s[i + 1] = LF }

\* the position just before the piece that ends at position i
PieceStart(T, i) ==
    LET before == { j \in T : j < i } IN IF before = {} THEN 0 ELSE Max(before) + 1

\* the whole stream split on CR-LF, without the final unterminated piece
StreamLines(s) ==
    LET T == Terminators(s)
    IN [k \in 1..Cardinality(T) |->
          LET i == CHOOSE i \in T : Cardinality({ j \in T : j <= i }) = k
          IN SubSeq(s, PieceStart(T, i) + 1, i - 1)]

\* the final unterminated piece of the stream
StreamTail(s) == SubSeq(s, PieceStart(Terminators(s), Len(s) + 1) + 1, Len(s))

\* C1: whatever the chunks, the lines put on the inbound queue are the whole
\* stream read so far split on CR-LF, in order, and the unterminated rest of
\* the stream is exactly what the inbound buffer holds.
C1_FramingRoundTrip ==
    /\ delivered = StreamLines(received)
    /\ ibuffer = StreamTail(received)

\* C1 witness: a line has been delivered and a read has ended between the CR
\* and the LF of the next terminator.
C1_CutInsideTerminator ==
    /\ delivered # << >>
    /\ ibuffer # << >>
    /\ Last(ibuffer) = CR
    /\ net # << >>
    /\ Head(net) = LF

\* the content of a request up to its first embedded line break
UpToBreak(req) ==
    LET brk == { i \in 1..Len(req) : req[i] \in { CR, LF } }
    IN IF brk = {} THEN req
       ELSE SubSeq(req, 1, (CHOOSE i \in brk : \A j \in brk : i <= j) - 1)

\* C2: every framed line appended to the outbound buffer is the request's
\* content up to its first line break, truncated to 510 bytes, followed by
\* CR-LF, and so is at most 512 bytes long.
C2_TruncationLaw ==
    \A i \in 1..Len(framed) :
        /\ framed[i] = Take(UpToBreak(requests[i]), 510) \o CRLF
        /\ Len(framed[i]) <= 512

\* C3: under any sequence of partial writes, the bytes the transport has
\* accepted followed by the bytes still buffered are the framed lines, each
\* once and in order, and the buffer is empty whenever the inner write loop
\* is not running.
C3_PartialWrite ==
    /\ wire \o obuffer = Join(framed)
    /\ sendPc = "get" => obuffer = << >>
    /\ sendPc = "send" => obuffer # << >>

\* C3 witness: the third framed line has been written in part.
C3_LinePartlyWritten ==
    /\ Len(framed) = 3
    /\ sendPc = "send"
    /\ obuffer # << >>
    /\ Len(obuffer) < Len(framed[3])

\* the event loop takes a line in this step
Processes == processed' # processed

\* the requests enqueued in this step
Enqueued == SubSeq(requests', Len(requests) + 1, Len(requests'))

\* the text of a line after its prefix and its command token
OriginalArgs(s) ==
    LET body == IF s # << >> /\ Head(s) = ":" /\ Find(s, << " " >>) # 0
                THEN SubSeq(s, Find(s, << " " >>) + 1, Len(s))
                ELSE s
        i == Find(body, << " " >>)
    IN IF i = 0 THEN << >> ELSE SubSeq(body, i + 1, Len(body))

\* C4: processing a line whose command is PING enqueues exactly one request,
\* PONG followed by the line's original arguments (PING :abc gives PONG :abc).
C4_PingPong ==
    [][ (Processes /\ Parsemsg(Last(processed')).err = "none"
            /\ Parsemsg(Last(processed')).command = S_PING)
        => Enqueued = << S_PONG \o << " " >> \o OriginalArgs(Last(processed')) >>
      ]_vars

Underscores(k) == [i \in 1..k |-> "_"]

\* whether a line parses to a message whose command is 433
Is433(s) == Parsemsg(s).err = "none" /\ Parsemsg(s).command = S_433

\* the number of lines of a sequence whose command is 433
Count433(ls) == Cardinality({ i \in 1..Len(ls) : Is433(ls[i]) })

IsNickRequest(r) == IsPrefix(S_NICK \o << " " >>, r)

\* the NICK requests of a session that has met k collisions: the
\* registration one, then one per collision with one more underscore each
NickRequests(k) ==
    [j \in 1..(k + 1) |-> S_NICK \o << " " >> \o SettingsNick \o Underscores(j - 1)]

\* the event loop has nothing left to take, or has ended
Settled == ircPc # "init" /\ (iqueue = << >> \/ ircPc = "raised")

\* C5: after any sequence of inbound lines containing k lines with command
\* 433, the current nick is the configured nick followed by k underscores,
\* and the NICK requests sent are the registration one followed by exactly
\* one per 433 line, each with one more underscore than the one before.
C5_NickCollision ==
    Settled =>
        /\ nick = SettingsNick \o Underscores(Count433(delivered))
        /\ SelectSeq(requests, IsNickRequest) = NickRequests(Count433(delivered))

\* What the code does guarantee: the same, counting only the 433 lines the
\* event loop has taken from the inbound queue.
NickFollowsProcessed ==
    /\ nick = SettingsNick \o Underscores(Count433(processed))
    /\ ircPc # "init" =>
         SelectSeq(requests, IsNickRequest) = NickRequests(Count433(processed))

IsJoinRequest(r) == IsPrefix(S_JOIN, r)

\* one JOIN request per configured channel, in configuration order
ExpectedJoins ==
    [i \in 1..Len(SettingsChannels) |-> S_JOIN \o << " " >> \o SettingsChannels[i]]

\* C6: a step that processes a line whose command is 001 enqueues exactly
\* the JOIN requests of the configured channels, in order; no other step
\* enqueues a JOIN request.
C6_ChannelJoin ==
    [][ IF Processes /\ Parsemsg(Last(processed')).err = "none"
           /\ Parsemsg(Last(processed')).command = S_001
        THEN Enqueued = ExpectedJoins
        ELSE \A i \in 1..Len(Enqueued) : ~IsJoinRequest(Enqueued[i])
      ]_vars

\* C6 witness: a 001 line has been processed and the JOIN requests of both
\* channels are at the end of the requests, next to each other.
C6_Joined ==
    /\ processed # << >>
    /\ Last(processed) = S_001
    /\ Len(requests) >= 2
    /\ requests[Len(requests) - 1] = S_JOIN \o << " ", "#", "a" >>
    /\ requests[Len(requests)] = S_JOIN \o << " ", "#", "b" >>

\* C7: after the event loop has taken an empty line, it is still running.
C7_EmptyLineRecoverable ==
    (processed # << >> /\ Last(processed) = << >>) => ircPc = "loop"

\* C8: after the event loop has taken a non-empty line, whatever its
\* content, it is still running.
C8_MalformedLineRecoverable ==
    (processed # << >> /\ Last(processed) # << >>) => ircPc = "loop"

\* C9: once a read has returned zero bytes, the read loop has ended and
\* reads no more.
C9_EofEndsReadLoop ==
    eofReads >= 1 => (recvPc # "recv" /\ eofReads = 1)

\* the registration requests, as the protocol writes them
NickLine == S_NICK \o << " " >> \o SettingsNick

UserLine ==
    S_USER \o << " " >> \o SettingsNick \o << " ", "3", " ", "*", " ", ":" >>
    \o SettingsRealname

RegistrationBytes == NickLine \o CRLF \o UserLine \o CRLF

\* C10: once _connect has run, connected or not, the first two requests are
\* NICK <nick> and USER <nick> 3 * :<realname>; nothing is on the wire before
\* the connection is up, and what is on the wire starts with these two lines
\* in this order (or is a part of them written so far).
C10_RegistrationFirst ==
    /\ ircPc = "init" => requests = << >>
    /\ ircPc # "init" =>
         /\ Len(requests) >= 2
         /\ requests[1] = NickLine
         /\ requests[2] = UserLine
    /\ connPc \in { "unspawned", "spawned", "raised" } => wire = << >>
    /\ IsPrefix(wire, RegistrationBytes) \/ IsPrefix(RegistrationBytes, wire)

\* C10 witness: both registration lines and part of a line the event loop
\* produced are on the wire.
C10_RegistrationWritten ==
    /\ IsPrefix(RegistrationBytes, wire)
    /\ Len(wire) > Len(RegistrationBytes)
    /\ processed # << >>

\* the position of the first occurrence of a pattern, 0 when there is none
FirstAt(s, pat) ==
    IF \E i \in 1..Len(s) : IsPrefix(pat, SubSeq(s, i, Len(s)))
    THEN CHOOSE i \in 1..Len(s) :
           /\ IsPrefix(pat, SubSeq(s, i, Len(s)))
           /\ \A j \in 1..(i - 1) : ~IsPrefix(pat, SubSeq(s, j, Len(s)))
    ELSE 0

Blank(c) == c \in { " ", "\t", "\n", "\r", "\f" }

\* the white-space separated tokens of a text: its maximal runs of
\* characters that are not white space, in order
Tokens(s) ==
    LET starts == { i \in 1..Len(s) : ~Blank(s[i]) /\ (i = 1 \/ Blank(s[i - 1])) }
        stop(i) == CHOOSE j \in i..Len(s) :
                     /\ \A m \in i..j : ~Blank(s[m])
                     /\ (j = Len(s) \/ Blank(s[j + 1]))
    IN [k \in 1..Cardinality(starts) |->
          LET i == CHOOSE i \in starts : Cardinality({ j \in starts : j <= i }) = k
          IN SubSeq(s, i, stop(i))]

\* the prefix of a line as the specification gives it
SpecPrefix(s) ==
    IF Head(s) = ":" THEN SubSeq(s, 2, FirstAt(s, << " " >>) - 1) ELSE << >>

\* the line without its prefix
SpecRemainder(s) ==
    IF Head(s) = ":" THEN SubSeq(s, FirstAt(s, << " " >>) + 1, Len(s)) ELSE s

\* the tokens of the remainder, the trailing argument last
SpecTokens(r) ==
    LET i == FirstAt(r, << " ", ":" >>)
    IN IF i = 0 THEN Tokens(r)
       ELSE Append(Tokens(SubSeq(r, 1, i - 1)), SubSeq(r, i + 2, Len(r)))

\* a non-empty line whose prefix, if any, ends at a space and which has a
\* command token
WellFormed(s) ==
    /\ s # << >>
    /\ Head(s) = ":" => FirstAt(s, << " " >>) # 0
    /\ SpecTokens(SpecRemainder(s)) # << >>

\* C11: when the last line the event loop has taken is well formed, the
\* current line is its parse by the specified algorithm: prefix up to the
\* first space after a leading colon, the remainder split at the first " :"
\* into white-space separated tokens and one verbatim trailing argument, the
\* first token as command and the others as args; the two example lines
\* parse to the stated messages.
C11_ParseAlgorithm ==
    (processed # << >> /\ WellFormed(Last(processed))) =>
        /\ ircPc = "loop"
        /\ line.prefix = SpecPrefix(Last(processed))
        /\ line.command = Head(SpecTokens(SpecRemainder(Last(processed))))
        /\ line.args = Tail(SpecTokens(SpecRemainder(Last(processed))))
        /\ Last(processed) = PrivmsgLine =>
             line = [prefix |-> SubSeq(PrivmsgLine, 2, 15),
                     command |-> SubSeq(PrivmsgLine, 17, 23),
                     args |-> << SubSeq(PrivmsgLine, 25, 29),
                                 SubSeq(PrivmsgLine, 32, 42) >>]
        /\ Last(processed) = PingServerLine =>
             line = [prefix |-> << >>,
                     command |-> S_PING,
                     args |-> << SubSeq(PingServerLine, 7, 24) >>]

\* C11 witness: the PRIVMSG example has been parsed into a prefix, a command
\* and two args, the second with a space in it.
C11_PrivmsgParsed ==
    /\ processed = << PrivmsgLine >>
    /\ line.command = << "P", "R", "I", "V", "M", "S", "G" >>
    /\ Len(line.args) = 2
    /\ line.args[2] = << "h", "e", "l", "l", "o", " ", "w", "o", "r", "l", "d" >>


(***************************************************************************)
(* C12, C13, C14: what the loss of the connection leaves running.  A state *)
(* is at rest when no greenlet of the program can take a step: every one   *)
(* of them is finished or suspended in recv, send, get or joinall, and     *)
(* only the peer, the network or a caller of the API can change that.  On  *)
(* a closed socket recv and send raise, so those are steps of the program. *)
(***************************************************************************)
ProgramStep ==
    \/ IrcConnect
    \/ EventLoop
    \/ Connect
    \/ ConnectFails
    \/ ConnectReturns
    \/ Recv
    \/ RecvEof
    \/ SendTake
    \/ SendWrite
    \/ (sock = "closed" /\ (RecvFails \/ SendFails))

AtRest == ~ ENABLED ProgramStep

RecvLoopRuns == recvPc = "recv"
SendLoopRuns == sendPc \in { "get", "send" }

\* one of the two loops of a started connection has ended with an exception
LoopFailed ==
    /\ connPc \in { "joinall", "returned" }
    /\ recvPc = "raised" \/ sendPc = "raised"

\* C12: once a loop of the connection has failed and the program has come to
\* rest, the other loop has stopped too and connect() has returned.
C12_LoopFailureEndsConnection ==
    (LoopFailed /\ AtRest) =>
        /\ ~ RecvLoopRuns
        /\ ~ SendLoopRuns
        /\ connPc = "returned"

\* C13: once disconnect() has closed the socket and the program has come to
\* rest, neither loop is left running or suspended, the send loop waiting
\* for a request included.
C13_CloseEndsBothLoops ==
    (sock = "closed" /\ AtRest) => (~ RecvLoopRuns /\ ~ SendLoopRuns)

\* the connection was not established, was lost in a loop, or was torn down
ConnectionLost ==
    \/ connPc = "raised"
    \/ recvPc = "raised"
    \/ sendPc = "raised"
    \/ sock = "closed"

\* C14: once the connection is lost and the program has come to rest, the
\* event loop is not left suspended in iqueue.get().
C14_LossReachesSession ==
    (ConnectionLost /\ AtRest) => ircPc # "loop"


(***************************************************************************)
(* C15: the two loops of a connection do not wait for each other.          *)
(***************************************************************************)
\* the connection is up and neither loop has ended
LoopsUp ==
    /\ connPc = "joinall"
    /\ sock = "connected"
    /\ recvPc # "raised"
    /\ sendPc # "raised"

\* the send loop has bytes the transport has not accepted, or has no request
WriteStalled == obuffer # << >> \/ oqueue = << >>

\* the read loop has nothing to read
ReadWaiting == net = << >> /\ ~peerEof

\* C15: while the connection is up, a stalled send loop does not keep the
\* read loop from reading what has arrived and delivering the lines that are
\* complete, and a waiting read loop does not keep the send loop from taking
\* the next request or writing its buffer.
C15_LoopsIndependent ==
    LoopsUp =>
        /\ (WriteStalled /\ net # << >>) => ENABLED Recv
        /\ (WriteStalled /\ FirstAt(ibuffer \o net, CRLF) # 0) =>
               ENABLED (Recv /\ delivered' # delivered)
        /\ (ReadWaiting /\ obuffer = << >> /\ oqueue # << >>) => ENABLED SendTake
        /\ (ReadWaiting /\ obuffer # << >>) => ENABLED SendWrite

\* C15 witness: lines have been delivered while no byte of the first
\* request has been accepted by the transport.
C15_ReadWhileWriteStalled ==
    /\ LoopsUp
    /\ obuffer # << >>
    /\ wire = << >>
    /\ delivered # << >>


(***************************************************************************)
(* C16: lines with a command the event loop has no rule for.               *)
(***************************************************************************)
Unrecognized(msg) == msg.command \notin { S_433, S_PING, S_001 }

\* the message _parsemsg returns for the line taken last
ParsedLast ==
    LET msg == Parsemsg(Last(processed'))
    IN [prefix |-> msg.prefix, command |-> msg.command, args |-> msg.args]

\* C16: no step changes the channel list, and the step that processes a
\* parsed line whose command is not 433, PING or 001 appends that one
\* message to the history, makes it the current line, enqueues no request
\* and leaves the nick as it was.
C16_UnrecognizedOnlyHistory ==
    [][ /\ channels' = channels
        /\ (Processes /\ ircPc' = "loop" /\ Unrecognized(ParsedLast)) =>
               /\ lines' = Append(lines, ParsedLast)
               /\ line' = ParsedLast
               /\ Enqueued = << >>
               /\ oqueue' = oqueue
               /\ nick' = nick ]_vars

\* C16 witness: one line with an unhandled command has been processed; it is
\* the only entry of the history and nothing but the registration was sent.
C16_UnrecognizedProcessed ==
    /\ Len(processed) = 1
    /\ ircPc = "loop"
    /\ Unrecognized(line)
    /\ line.command # << >>
    /\ lines = << line >>
    /\ Len(requests) = 2
    /\ nick = SettingsNick


(***************************************************************************)
(* C17, C18: the send loop and the order of the bytes on the wire.         *)
(***************************************************************************)
\* the number of requests the send loop has taken from oqueue
Taken == Len(requests) - Len(oqueue)

\* C17: the send loop ends only on a write error, that is with unwritten
\* bytes in its buffer; every request it has taken has been framed, and an
\* empty request has been framed as a bare CR-LF.
C17_OnlyWriteErrorEndsSendLoop ==
    /\ sendPc = "raised" => obuffer # << >>
    /\ Len(framed) = Taken
    /\ \A i \in 1..Len(framed) : requests[i] = << >> => framed[i] = CRLF

\* the framed line of a request: its content up to the first line break, cut
\* at the slice limit, and CR-LF
RefFrame(req) == Take(UpToBreak(req), SliceLimit) \o CRLF

\* the framed lines of all requests, in the order they were enqueued
FramedInOrder == Join([i \in 1..Len(requests) |-> RefFrame(requests[i])])

IsSuffix(s, l) == Len(s) <= Len(l) /\ SubSeq(l, Len(l) - Len(s) + 1, Len(l)) = s

\* C18: the send loop can take a request only when its buffer is empty; the
\* buffer holds a suffix of the framed line of the request taken last and of
\* no other, and the bytes on the wire, also with the buffer after them, are
\* a prefix of the framed lines of the requests in the order they were
\* enqueued.
C18_WireOrder ==
    LET inOrder == FramedInOrder
    IN /\ (ENABLED SendTake) => obuffer = << >>
       /\ obuffer # << >> =>
              /\ Taken >= 1
              /\ IsSuffix(obuffer, RefFrame(requests[Taken]))
       /\ IsPrefix(wire, inOrder)
       /\ IsPrefix(wire \o obuffer, inOrder)

\* C18 witness: the registration and a reaction are on the wire, the next
\* reaction is written in part and one more request waits in the queue.
C18_ReactionsInOrder ==
    /\ Taken >= 4
    /\ oqueue # << >>
    /\ obuffer # << >>
    /\ Len(obuffer) < Len(RefFrame(requests[Taken]))
    /\ IsPrefix(Join([i \in 1..3 |-> RefFrame(requests[i])]), wire)


(***************************************************************************)
(* C19: one request, one line.                                             *)
(***************************************************************************)
\* how often the character c occurs in s
Count(s, c) == Cardinality({ i \in 1..Len(s) : s[i] = c })

\* C19: a framed line ends with CR-LF and has no other CR or LF in it; the
\* bytes written and buffered hold one CR and one LF for every framed line,
\* no request is framed twice, and whenever the send loop waits for the next
\* request the wire holds exactly one line for every request taken, whatever
\* line breaks the request (a PONG echoing the arguments of the server among
\* them) has in it.
C19_NoLineInjection ==
    /\ \A i \in 1..Len(framed) :
           /\ Len(framed[i]) >= 2
           /\ SubSeq(framed[i], Len(framed[i]) - 1, Len(framed[i])) = CRLF
           /\ \A j \in 1..(Len(framed[i]) - 2) : framed[i][j] \notin { CR, LF }
    /\ Len(framed) <= Taken
    /\ Count(wire \o obuffer, CR) = Len(framed)
    /\ Count(wire \o obuffer, LF) = Len(framed)
    /\ sendPc = "get" =>
           /\ Count(wire, CR) = Taken
           /\ Count(wire, LF) = Taken

\* C19 witness: the PONG for a PING with a lone CR or LF in its argument has
\* been written as a whole.
C19_PongWithBreakWritten ==
    /\ Taken = 3
    /\ IsPrefix(S_PONG, requests[3])
    /\ Count(requests[3], CR) + Count(requests[3], LF) > 0
    /\ obuffer = << >>
    /\ sendPc = "get"

=============================================================================
